---------------------------- MODULE Spec2Model ----------------------------
(***************************************************************************)
(* Customer-support chatbot: the classification-and-routing workflow       *)
(* (src/graph/workflow.py), its three nodes (classifier_node.py,           *)
(* rag_node.py, escalation_node.py) and the state record (state.py); the   *)
(* service around it (src/api/main.py) and the middleware package          *)
(* (src/middleware/rate_limit.py, src/middleware/auth.py).                 *)
(*                                                                         *)
(* Conventions.                                                            *)
(*  - Text is a sequence of one-character strings, so that lower(),        *)
(*    strip() and re.search() are computed and not assumed.                *)
(*  - A message (escalation template, completion, apology) is a sequence   *)
(*    of fragments; the empty sequence is the empty string.                *)
(*  - An Optional[...] value is None or Some(v).                           *)
(*  - A dict is a function; an absent key is absent from its DOMAIN.       *)
(*  - confidence is counted in hundredths (0.3 is 30, 1.0 is 100).         *)
(***************************************************************************)
EXTENDS Integers, Sequences, FiniteSets, TLC

VARIABLES
    call,       \* the top-level call in progress: [fn, arg]
    pc,         \* position of that call
    state,      \* the ChatbotState the call is working on
    visited,    \* stages entered during the call, in order
    route,      \* the router's decisions during the call, in order
    extcalls,   \* external calls made during the call and how each ended
    rag,        \* locals of RAGResponseNode.generate_response
    instances,  \* module-level singletons that have been constructed
    threads,    \* concurrent callers: each thread's position and locals
    globals,    \* the module-level names the concurrent callers share
    env,        \* middleware/auth.py's settings, read from os.environ at import
    limiter,    \* the RateLimiter instance: its request lists and last_cleanup
    clock,      \* time.time(), in seconds
    log         \* the answers is_allowed has given so far, in order

\* the state of the middleware package
middleware == <<env, limiter, clock, log>>

vars == <<call, pc, state, visited, route, extcalls, rag, instances,
          threads, globals, middleware>>

----------------------------------------------------------------------------
\* Bounds of the model.

MaxTokens == 2      \* a query is built from at most this many tokens

----------------------------------------------------------------------------
\* Python values.

None == [none |-> TRUE]
Some(v) == [some |-> v]
Val(o) == o.some

EmptyDict == <<>>

\* dict.get(key, default)
Get(d, key, default) == IF key \in DOMAIN d THEN d[key] ELSE default

\* {**old, **new}: the keys of new win
Merge(new, old) == new @@ old

\* bool(x) of an Optional[str] holding text or a label
Truthy(o) == o # None /\ Val(o) # ""

----------------------------------------------------------------------------
\* Text.

Whitespace == {" ", "\t", "\n"}

Upper == <<"A","B","C","D","E","F","G","H","I","J","K","L","M",
           "N","O","P","Q","R","S","T","U","V","W","X","Y","Z">>
Lower == <<"a","b","c","d","e","f","g","h","i","j","k","l","m",
           "n","o","p","q","r","s","t","u","v","w","x","y","z">>

LowerChar(c) ==
    IF \E i \in 1..Len(Upper) : Upper[i] = c
    THEN Lower[CHOOSE i \in 1..Len(Upper) : Upper[i] = c]
    ELSE c

\* str.lower()
StrLower(s) == [i \in 1..Len(s) |-> LowerChar(s[i])]

RECURSIVE LStrip(_)
LStrip(s) == IF s # <<>> /\ Head(s) \in Whitespace THEN LStrip(Tail(s)) ELSE s

RECURSIVE RStrip(_)
RStrip(s) ==
    IF s # <<>> /\ s[Len(s)] \in Whitespace
    THEN RStrip(SubSeq(s, 1, Len(s) - 1))
    ELSE s

\* str.strip()
Strip(s) == RStrip(LStrip(s))

\* re.search(literal, s): the literal occurs somewhere in s
Occurs(lit, s) ==
    \E i \in 1..(Len(s) - Len(lit) + 1) : SubSeq(s, i, i + Len(lit) - 1) = lit

\* re.search(pattern, s, re.IGNORECASE) for a pattern a1|a2|...|an of literals
ReSearch(pattern, s) ==
    \E k \in 1..Len(pattern) : Occurs(StrLower(pattern[k]), StrLower(s))

----------------------------------------------------------------------------
\* classifier_node.py

CATEGORY_KEYWORDS ==
  <<
    [category |-> "product", keywords |-> <<
        << <<"s","m","a","r","t","w","a","t","c","h">>, <<"s","m","a","r","t"," ","w","a","t","c","h">>, <<"w","a","t","c","h">> >>,
        << <<"e","a","r","b","u","d","s">>, <<"e","a","r","p","h","o","n","e","s">>, <<"h","e","a","d","p","h","o","n","e","s">> >>,
        << <<"p","o","w","e","r"," ","b","a","n","k">>, <<"p","o","w","e","r","b","a","n","k">>, <<"b","a","t","t","e","r","y"," ","p","a","c","k">> >>,
        << <<"p","r","i","c","e">>, <<"c","o","s","t">>, <<"h","o","w"," ","m","u","c","h">> >>,
        << <<"f","e","a","t","u","r","e","s">>, <<"s","p","e","c","i","f","i","c","a","t","i","o","n","s">>, <<"s","p","e","c","s">> >>,
        << <<"a","v","a","i","l","a","b","l","e">>, <<"i","n"," ","s","t","o","c","k">>, <<"b","u","y">>, <<"p","u","r","c","h","a","s","e">> >>,
        << <<"m","o","d","e","l">>, <<"v","e","r","s","i","o","n">>, <<"v","a","r","i","a","n","t">> >>,
        << <<"c","o","l","o","r">>, <<"c","o","l","o","u","r">>, <<"s","i","z","e">> >>,
        << <<"b","a","t","t","e","r","y"," ","l","i","f","e">>, <<"c","h","a","r","g","i","n","g">> >>,
        << <<"w","a","r","r","a","n","t","y"," ","p","e","r","i","o","d">>, <<"g","u","a","r","a","n","t","e","e">> >>,
        << <<"w","a","t","e","r"," ","r","e","s","i","s","t","a","n","t">>, <<"w","a","t","e","r","p","r","o","o","f">> >>,
        << <<"c","o","m","p","a","t","i","b","l","e">>, <<"c","o","m","p","a","t","i","b","i","l","i","t","y">> >>,
        << <<"r","e","v","i","e","w">>, <<"r","a","t","i","n","g">>, <<"f","e","e","d","b","a","c","k">> >> >>],
    [category |-> "returns", keywords |-> <<
        << <<"r","e","t","u","r","n">>, <<"r","e","f","u","n","d">> >>,
        << <<"e","x","c","h","a","n","g","e">>, <<"r","e","p","l","a","c","e">>, <<"r","e","p","l","a","c","e","m","e","n","t">> >>,
        << <<"c","a","n","c","e","l">>, <<"c","a","n","c","e","l","l","a","t","i","o","n">> >>,
        << <<"w","a","r","r","a","n","t","y">>, <<"g","u","a","r","a","n","t","e","e">> >>,
        << <<"d","e","f","e","c","t","i","v","e">>, <<"d","a","m","a","g","e","d">>, <<"b","r","o","k","e","n">>, <<"f","a","u","l","t","y">> >>,
        << <<"n","o","t"," ","w","o","r","k","i","n","g">>, <<"i","s","s","u","e">>, <<"p","r","o","b","l","e","m">> >>,
        << <<"c","o","m","p","l","a","i","n","t">>, <<"d","i","s","p","u","t","e">> >>,
        << <<"m","o","n","e","y"," ","b","a","c","k">>, <<"g","e","t"," ","m","y"," ","m","o","n","e","y">> >>,
        << <<"s","e","n","d"," ","b","a","c","k">>, <<"s","h","i","p"," ","b","a","c","k">> >> >>],
    [category |-> "general", keywords |-> <<
        << <<"s","u","p","p","o","r","t">>, <<"h","e","l","p">>, <<"a","s","s","i","s","t">> >>,
        << <<"c","o","n","t","a","c","t">>, <<"r","e","a","c","h">>, <<"c","a","l","l">>, <<"e","m","a","i","l">>, <<"p","h","o","n","e">> >>,
        << <<"h","o","u","r","s">>, <<"t","i","m","i","n","g">>, <<"w","h","e","n"," ","o","p","e","n">> >>,
        << <<"s","h","i","p","p","i","n","g">>, <<"d","e","l","i","v","e","r","y">>, <<"d","i","s","p","a","t","c","h">> >>,
        << <<"p","a","y","m","e","n","t">>, <<"p","a","y">>, <<"c","o","d">>, <<"c","a","s","h"," ","o","n"," ","d","e","l","i","v","e","r","y">> >>,
        << <<"t","r","a","c","k">>, <<"t","r","a","c","k","i","n","g">>, <<"o","r","d","e","r"," ","s","t","a","t","u","s">> >>,
        << <<"a","c","c","o","u","n","t">>, <<"l","o","g","i","n">>, <<"r","e","g","i","s","t","e","r">>, <<"s","i","g","n"," ","u","p">> >>,
        << <<"l","o","c","a","t","i","o","n">>, <<"a","d","d","r","e","s","s">>, <<"s","t","o","r","e">> >>,
        << <<"o","f","f","e","r">>, <<"d","i","s","c","o","u","n","t">>, <<"c","o","u","p","o","n">>, <<"d","e","a","l">> >> >>]
  >>

Categories == [i \in 1..Len(CATEGORY_KEYWORDS) |-> CATEGORY_KEYWORDS[i].category]

\* QueryClassifier.preprocess_query
preprocess_query(query) == Strip(StrLower(query))

\* QueryClassifier.match_keywords: each pattern counts at most once
match_keywords(query, keywords) ==
    LET match_count == Cardinality({i \in 1..Len(keywords) : ReSearch(keywords[i], query)})
    IN  [matched |-> match_count > 0, count |-> match_count]

\* category_scores, in the dict's insertion order
category_scores(processed_query) ==
    [i \in 1..Len(CATEGORY_KEYWORDS) |->
        match_keywords(processed_query, CATEGORY_KEYWORDS[i].keywords).count]

RECURSIVE SeqSum(_)
SeqSum(s) == IF s = <<>> THEN 0 ELSE Head(s) + SeqSum(Tail(s))

SeqMax(s) == CHOOSE m \in {s[i] : i \in 1..Len(s)} : \A i \in 1..Len(s) : s[i] <= m

\* mutant: the last key that holds the largest value
ArgMaxLast(scores) ==
    CHOOSE i \in 1..Len(scores) :
        /\ scores[i] = SeqMax(scores)
        /\ \A j \in (i + 1)..Len(scores) : scores[j] < scores[i]

\* max(category_scores, key=category_scores.get): the first key, in insertion
\* order, that holds the largest value
ArgMax(scores) ==
    CHOOSE i \in 1..Len(scores) :
        /\ scores[i] = SeqMax(scores)
        /\ \A j \in 1..(i - 1) : scores[j] < scores[i]

\* mutant: truncation instead of rounding
Round2Floor(num, den) == num \div den

\* round(confidence, 2), for confidence = num/den hundredths.  A tie (..5 thousandths) arises in this
\* table only after the 0.2 boost, where the double nearest to the sum lies
\* below the tie (0.575, 0.825), so round() goes down.
Round2(num, den) ==
    LET q == num \div den
        r == num % den
    IN  IF 2 * r > den THEN q + 1 ELSE q

NoMatchConfidence == 30     \* confidence = 0.3
Boost == 20                 \* confidence + 0.2
FullConfidence == 100       \* min(..., 1.0)

\* mutant: the boost without min(..., 1.0)
MatchConfidenceNoCap(scores, winner) ==
    LET total_matches == SeqSum(scores)
        base == [num |-> FullConfidence * scores[winner], den |-> total_matches]
    IN  IF SeqMax(scores) > 1
        THEN [num |-> base.num + Boost * base.den, den |-> base.den]
        ELSE base

\* the else branch of classify: the confidence of the winning category in
\* hundredths, as the fraction num/den before rounding
MatchConfidence(scores, winner) ==
    LET total_matches == SeqSum(scores)
        base == [num |-> FullConfidence * scores[winner], den |-> total_matches]
        boosted == [num |-> base.num + Boost * base.den, den |-> base.den]
    IN  IF SeqMax(scores) > 1
        THEN IF boosted.num > FullConfidence * boosted.den
             THEN [num |-> FullConfidence, den |-> 1]
             ELSE boosted
        ELSE base

\* mutant: the no-match branch answers with the 0.5 of the division guard
ClassifyScoresHalf(scores) ==
    LET max_score == SeqMax(scores)
        dict == [c \in {Categories[i] : i \in 1..Len(Categories)} |->
                    scores[CHOOSE i \in 1..Len(Categories) : Categories[i] = c]]
    IN  IF max_score = 0
        THEN [category |-> "general", confidence |-> 50, scores |-> dict]
        ELSE LET winner == ArgMax(scores)
                 conf == MatchConfidence(scores, winner)
             IN  [category |-> Categories[winner],
                  confidence |-> Round2(conf.num, conf.den),
                  scores |-> dict]

\* QueryClassifier.classify on given per-category counts
ClassifyScores(scores) ==
    LET max_score == SeqMax(scores)
        dict == [c \in {Categories[i] : i \in 1..Len(Categories)} |->
                    scores[CHOOSE i \in 1..Len(Categories) : Categories[i] = c]]
    IN  IF max_score = 0
        THEN [category |-> "general", confidence |-> NoMatchConfidence, scores |-> dict]
        ELSE LET winner == ArgMax(scores)
                 conf == MatchConfidence(scores, winner)
             IN  [category |-> Categories[winner],
                  confidence |-> Round2(conf.num, conf.den),
                  scores |-> dict]

\* QueryClassifier.classify
classify(query) == ClassifyScores(category_scores(preprocess_query(query)))

----------------------------------------------------------------------------
\* state.py

EmptyText == <<>>

\* create_initial_state(user_query); conversation_id and timestamp are
\* opaque tokens no node reads
create_initial_state(user_query) ==
    [user_query |-> user_query,
     classified_category |-> None,
     final_response |-> None,
     retrieved_documents |-> None,
     confidence_score |-> None,
     needs_escalation |-> FALSE,
     conversation_id |-> "uuid4",
     timestamp |-> "now",
     metadata |-> EmptyDict]

\* update_state(current_state, **updates)
update_state(current_state, updates) == Merge(updates, current_state)

\* mutant: no early return for an empty query
classifier_node_unguarded(st) ==
    LET result == classify(Get(st, "user_query", EmptyText))
    IN  update_state(st,
            [classified_category |-> Some(result.category),
             confidence_score |-> Some(result.confidence),
             metadata |-> [classification_scores |-> result.scores,
                           classifier_type |-> "rule-based"]])

\* mutant: the empty-query guard applied to the stripped query
classifier_node_strip_guard(st) ==
    LET user_query == Get(st, "user_query", EmptyText)
    IN  IF Strip(user_query) = EmptyText
        THEN update_state(st,
                [classified_category |-> Some("general"),
                 confidence_score |-> Some(0),
                 metadata |-> [error |-> Some("Empty query")]])
        ELSE classifier_node_unguarded(st)

\* classifier_node
classifier_node(st) ==
    LET user_query == Get(st, "user_query", EmptyText)
    IN  IF user_query = EmptyText
        THEN update_state(st,
                [classified_category |-> Some("general"),
                 confidence_score |-> Some(0),
                 metadata |-> [error |-> Some("Empty query")]])
        ELSE LET result == classify(user_query)
             IN  update_state(st,
                    [classified_category |-> Some(result.category),
                     confidence_score |-> Some(result.confidence),
                     metadata |-> [classification_scores |-> result.scores,
                                   classifier_type |-> "rule-based"]])

----------------------------------------------------------------------------
\* print(f"Confidence: {confidence:.2f}"): formatting None raises TypeError
FormatRaises(confidence) == confidence = None

----------------------------------------------------------------------------
\* workflow.py: the router

\* mutant: state.get("classified_category") with no default
route_query_no_default(st) ==
    LET category == Get(st, "classified_category", None)
    IN  IF category \in {Some("product"), Some("general")}
        THEN "rag"
        ELSE "escalation"

\* ChatbotWorkflow._route_query
route_query(st) ==
    LET category == Get(st, "classified_category", Some("general"))
    IN  IF category \in {Some("product"), Some("general")}
        THEN "rag"
        ELSE "escalation"

----------------------------------------------------------------------------
\* escalation_node.py

SUPPORT_EMAIL == "support@techgear.com"
SUPPORT_PHONE == "1800-123-4567"
SUPPORT_HOURS == "Monday to Saturday, 9 AM to 6 PM IST"
SUPPORT_WEBSITE == "www.techgear.com/support"

\* EscalationHandler.should_escalate
should_escalate(category) ==
    IF Truthy(category)
    THEN Val(category) \in {"returns", "policy_inquiry", "escalate",
                            "out_of_scope", "complaint", "issue"}
    ELSE FALSE

get_returns_message ==
    <<"Thank you for contacting TechGear Electronics regarding your return or refund request.",
      "Return Policy Summary:", "To Process Your Return:",
      "Contact Our Support Team:",
      SUPPORT_EMAIL, SUPPORT_PHONE, SUPPORT_HOURS, SUPPORT_WEBSITE,
      "Is there anything else I can help you with regarding our products or policies?">>

get_out_of_scope_message ==
    <<"Thank you for your inquiry!",
      "I apologize, but I don't have information about that in my current knowledge base.",
      "I Can Help You With:", "For Other Inquiries:",
      SUPPORT_EMAIL, SUPPORT_PHONE, SUPPORT_HOURS,
      "How else can I assist you with our available products or services?">>

get_policy_inquiry_message ==
    <<"Thank you for your policy inquiry!",
      "General Policy Information Available:",
      "For Detailed Policy Information:",
      SUPPORT_EMAIL, SUPPORT_PHONE, SUPPORT_HOURS, SUPPORT_WEBSITE,
      "Is there anything specific about our products I can help you with right now?">>

get_general_escalation_message ==
    <<"Thank you for contacting TechGear Electronics!",
      "Contact Our Support Team:",
      SUPPORT_EMAIL, SUPPORT_PHONE, SUPPORT_HOURS, SUPPORT_WEBSITE,
      "Quick Response Times:", "Meanwhile, I Can Help With:",
      "Would you like to know more about any of our products?">>

\* mutant: the default branch answers without the contact block
generate_escalation_message_no_contacts(category, query, confidence) ==
    LET pick ==
            IF category = Some("returns")
            THEN [response |-> get_returns_message,
                  reason |-> "return_refund_request"]
            ELSE IF category = Some("out_of_scope")
            THEN [response |-> get_out_of_scope_message,
                  reason |-> "query_outside_knowledge_base"]
            ELSE IF category = Some("policy_inquiry")
            THEN [response |-> get_policy_inquiry_message,
                  reason |-> "policy_clarification_needed"]
            ELSE [response |-> <<"Thank you for contacting TechGear Electronics!">>,
                  reason |-> "general_support_needed"]
    IN  [response |-> pick.response,
         escalation_reason |-> pick.reason,
         requires_human |-> TRUE,
         timestamp |-> "now"]

\* mutant: a low-confidence query gets the general template whatever its category
generate_escalation_message_by_confidence(category, query, confidence) ==
    LET pick ==
            IF Val(confidence) < FullConfidence
            THEN [response |-> get_general_escalation_message,
                  reason |-> "general_support_needed"]
            ELSE IF category = Some("returns")
            THEN [response |-> get_returns_message,
                  reason |-> "return_refund_request"]
            ELSE IF category = Some("out_of_scope")
            THEN [response |-> get_out_of_scope_message,
                  reason |-> "query_outside_knowledge_base"]
            ELSE IF category = Some("policy_inquiry")
            THEN [response |-> get_policy_inquiry_message,
                  reason |-> "policy_clarification_needed"]
            ELSE [response |-> get_general_escalation_message,
                  reason |-> "general_support_needed"]
    IN  [response |-> pick.response,
         escalation_reason |-> pick.reason,
         requires_human |-> TRUE,
         timestamp |-> "now"]

\* EscalationHandler.generate_escalation_message
generate_escalation_message(category, query, confidence) ==
    LET pick ==
            IF category = Some("returns")
            THEN [response |-> get_returns_message,
                  reason |-> "return_refund_request"]
            ELSE IF category = Some("out_of_scope")
            THEN [response |-> get_out_of_scope_message,
                  reason |-> "query_outside_knowledge_base"]
            ELSE IF category = Some("policy_inquiry")
            THEN [response |-> get_policy_inquiry_message,
                  reason |-> "policy_clarification_needed"]
            ELSE [response |-> get_general_escalation_message,
                  reason |-> "general_support_needed"]
    IN  [response |-> pick.response,
         escalation_reason |-> pick.reason,
         requires_human |-> TRUE,
         timestamp |-> "now"]

\* mutant: the handler relabels the category it answers
EscalatedStateRelabel(st, result) ==
    update_state(st,
        [final_response |-> Some(result.response),
         needs_escalation |-> TRUE,
         classified_category |-> Some("escalate"),
         metadata |-> Merge([escalation_reason |-> result.escalation_reason,
                             requires_human |-> result.requires_human,
                             escalation_timestamp |-> result.timestamp,
                             support_email |-> SUPPORT_EMAIL,
                             support_phone |-> SUPPORT_PHONE],
                            Get(st, "metadata", EmptyDict))])

\* mutant: needs_escalation left as it was
EscalatedStateNoFlag(st, result) ==
    update_state(st,
        [final_response |-> Some(result.response),
         metadata |-> Merge([escalation_reason |-> result.escalation_reason,
                             requires_human |-> result.requires_human,
                             escalation_timestamp |-> result.timestamp,
                             support_email |-> SUPPORT_EMAIL,
                             support_phone |-> SUPPORT_PHONE],
                            Get(st, "metadata", EmptyDict))])

\* the state EscalationHandler.process returns when it escalates
EscalatedState(st, result) ==
    update_state(st,
        [final_response |-> Some(result.response),
         needs_escalation |-> TRUE,
         metadata |-> Merge([escalation_reason |-> result.escalation_reason,
                             requires_human |-> result.requires_human,
                             escalation_timestamp |-> result.timestamp,
                             support_email |-> SUPPORT_EMAIL,
                             support_phone |-> SUPPORT_PHONE],
                            Get(st, "metadata", EmptyDict))])

\* EscalationHandler.process: [raised, state]
EscalationProcess(st) ==
    LET query == Get(st, "user_query", EmptyText)
        category == Get(st, "classified_category", Some(""))
        confidence == Get(st, "confidence_score", Some(0))
    IN  IF FormatRaises(confidence)
        THEN [raised |-> TRUE, state |-> st]
        ELSE IF ~should_escalate(category)
        THEN [raised |-> FALSE, state |-> st]
        ELSE [raised |-> FALSE,
              state |-> EscalatedState(st,
                            generate_escalation_message(category, query, confidence))]

----------------------------------------------------------------------------
\* rag_node.py and bot/rag_chain.py

top_k == 3

\* mutant: the general categories left out of rag_categories
should_use_rag_product_only(category) ==
    IF Truthy(category)
    THEN Val(category) \in {"product", "product_inquiry"}
    ELSE FALSE

\* RAGResponseNode.should_use_rag
should_use_rag(category) ==
    IF Truthy(category)
    THEN Val(category) \in {"product", "general", "product_inquiry", "general_inquiry"}
    ELSE FALSE

ApologyMessage ==
    <<"I apologize, but I encountered an error processing your request. Please try again or contact our support team.">>

NoContextSentinel == <<"No relevant information found.">>

SourceLabel == <<"[Source 1]", "[Source 2]", "[Source 3]">>

RECURSIVE FormatFrom(_, _)
FormatFrom(docs, i) ==
    IF i > Len(docs) THEN <<>>
    ELSE <<SourceLabel[i], docs[i].page_content>> \o FormatFrom(docs, i + 1)

\* mutant: no sentinel for an empty result
format_docs_no_sentinel(docs) == FormatFrom(docs, 1)

\* RAGChain.format_docs (the "\n\n" joints are left out)
format_docs(docs) == IF docs = <<>> THEN NoContextSentinel ELSE FormatFrom(docs, 1)

\* mutant: ranks counted from 0
formatted_docs_zero_based(retrieved_docs) ==
    [i \in 1..Len(retrieved_docs) |->
        [rank |-> i - 1,
         content |-> retrieved_docs[i].page_content,
         metadata |-> retrieved_docs[i].metadata,
         source |-> Get(retrieved_docs[i].metadata, "source", "unknown")]]

\* the formatted_docs loop of generate_response
formatted_docs(retrieved_docs) ==
    [i \in 1..Len(retrieved_docs) |->
        [rank |-> i,
         content |-> retrieved_docs[i].page_content,
         metadata |-> retrieved_docs[i].metadata,
         source |-> Get(retrieved_docs[i].metadata, "source", "unknown")]]

\* generate_response: the dict returned after both calls succeeded
SuccessResult(response, retrieved_docs) ==
    [response |-> response,
     retrieved_documents |-> formatted_docs(retrieved_docs),
     document_count |-> Len(retrieved_docs)]

\* mutant: the exception's text sent to the user
FailureResultEcho(e) ==
    [response |-> <<e>>,
     retrieved_documents |-> <<>>,
     document_count |-> 0,
     error |-> e]

\* generate_response: the dict returned by the except branch
FailureResult(e) ==
    [response |-> ApologyMessage,
     retrieved_documents |-> <<>>,
     document_count |-> 0,
     error |-> e]

\* RAGResponseNode.process: the state built from generate_response's result
RagUpdatedState(st, result) ==
    update_state(st,
        [final_response |-> Some(result.response),
         retrieved_documents |-> Some(result.retrieved_documents),
         metadata |-> Merge([rag_used |-> TRUE,
                             document_count |-> result.document_count,
                             response_source |-> "rag_chain",
                             error |-> IF "error" \in DOMAIN result
                                       THEN Some(result.error) ELSE None],
                            Get(st, "metadata", EmptyDict))])

----------------------------------------------------------------------------
\* Inputs.

\* what a user types: words that hit one table, several tables or none,
\* with capitals and blanks
Tokens ==
    { <<"P","r","i","c","e">>, <<"w","a","t","c","h">>,
      <<"R","e","f","u","n","d">>,
      <<"g","u","a","r","a","n","t","e","e">>, <<"h","e","l","p">>,
      <<"l","a","p","t","o","p">>, <<" ">> }

RECURSIVE QueriesUpTo(_)
QueriesUpTo(n) ==
    IF n = 0 THEN {EmptyText}
    ELSE QueriesUpTo(n - 1) \cup {q \o t : q \in QueriesUpTo(n - 1), t \in Tokens}

Queries == QueriesUpTo(MaxTokens)

\* category labels a hand-built state may carry: the classifier's three, the
\* six of state.py's taxonomy, the escalation handler's extra ones, an
\* arbitrary label and the empty string
Labels ==
    {"product", "returns", "general",
     "product_inquiry", "policy_inquiry", "support_inquiry", "general_inquiry",
     "escalate", "out_of_scope", "complaint", "issue", "billing", ""}

RemoveKey(d, k) == [x \in DOMAIN d \ {k} |-> d[x]]

\* a state with a pre-classified category, as test_escalation_categories builds it
PreClassified(query, category, confidence) ==
    update_state(create_initial_state(query),
        [classified_category |-> category, confidence_score |-> confidence])

DirectQueries == {EmptyText} \cup Tokens

\* states handed to a node or to the router directly
DirectStates ==
    {PreClassified(q, c, s) :
        q \in DirectQueries,
        c \in {Some(l) : l \in Labels} \cup {None},
        s \in {Some(FullConfidence), None}}
    \cup {RemoveKey(create_initial_state(q), "classified_category") : q \in DirectQueries}
    \cup {RemoveKey(PreClassified(EmptyText, Some("general"), Some(FullConfidence)), "user_query")}
    \cup {EmptyDict}

\* the knowledge base's chunks, as the Retriever returns them
Documents ==
    { [page_content |-> "SmartWatch Pro X: 15,999", metadata |-> [source |-> "products.txt"]],
      [page_content |-> "Support hours: Mon-Sat", metadata |-> EmptyDict] }

MaxDocs == 2        \* the index answers with at most this many chunks

RECURSIVE RankingsUpTo(_)
RankingsUpTo(n) ==
    IF n = 0 THEN {<<>>}
    ELSE RankingsUpTo(n - 1) \cup
         {Append(r, d) : r \in {x \in RankingsUpTo(n - 1) : Len(x) = n - 1},
                         d \in Documents}

NoRepeat(r) == \A i, j \in 1..Len(r) : i # j => r[i] # r[j]

Min(a, b) == IF a < b THEN a ELSE b

\* what retriever.invoke(query) may return: up to k distinct chunks
RetrievalResults == {r \in RankingsUpTo(Min(top_k, MaxDocs)) : NoRepeat(r)}

\* what the completion may return
Completions == { <<"The SmartWatch Pro X is priced at 15,999.">>, EmptyText }

\* str(e) of a collaborator's exception
RetrievalErrors == {"retriever unavailable"}
CompletionErrors == {"completion failed", "timeout"}

----------------------------------------------------------------------------
\* The graph built by ChatbotWorkflow.__init__.

EntryPoint == "classifier"

END == "END"

\* add_conditional_edges("classifier", _route_query, {...})
ConditionalEdges == [rag |-> "rag", escalation |-> "escalation"]

\* mutant: the rag node wired to the escalation node instead of END
TerminalEdgeChained(node) == IF node = "rag" THEN "escalation" ELSE END

\* add_edge("rag", END); add_edge("escalation", END)
TerminalEdge(node) == END

\* where control goes when a node function returns: along the graph's edge
\* inside run(), back to the caller when the node was called directly
AfterClassifier == IF call.fn = "run" THEN "route" ELSE END
AfterRoute(decision) == IF call.fn = "run" THEN ConditionalEdges[decision] ELSE END
AfterResponder(node) == IF call.fn = "run" THEN TerminalEdge(node) ELSE END

NoLocals == [retrieved_docs |-> None]

\* confidence values a caller passes: 0.0, 0.3 and 1.0
Confidences == {0, NoMatchConfidence, FullConfidence}

\* the callers of the concurrent specification
Threads == {1, 2}

\* a thread that is not inside a call
IdleThread ==
    [pc |-> "idle", getting |-> "", query |-> EmptyText, state |-> EmptyDict,
     route |-> None, reply |-> None,
     handle |-> [k \in {"workflow", "rag_node", "escalation_handler"} |-> None]]

NoThreads == [t \in Threads |-> IdleThread]

\* _workflow_instance, _rag_node_instance, _escalation_handler_instance = None
Singletons == {"workflow", "rag_node", "escalation_handler"}

NoGlobals == [instance |-> [k \in Singletons |-> None],
              constructed |-> [k \in Singletons |-> 0]]

Init ==
    /\ call = [fn |-> "none"]
    /\ pc = "idle"
    /\ state = EmptyDict
    /\ visited = <<>>
    /\ route = <<>>
    /\ extcalls = <<>>
    /\ rag = NoLocals
    /\ instances = {}
    /\ threads = NoThreads
    /\ globals = NoGlobals
    /\ env = None
    /\ limiter = None
    /\ clock = 0
    /\ log = <<>>

\* a top-level call begins
Start(fn, st, at) ==
    /\ call' = [fn |-> fn]
    /\ state' = st
    /\ pc' = at
    /\ visited' = <<>>
    /\ route' = <<>>
    /\ extcalls' = <<>>
    /\ rag' = NoLocals
    /\ UNCHANGED <<instances, threads, globals, middleware>>

\* ChatbotWorkflow.run(user_query): create_initial_state, then graph.invoke
Run ==
    \E q \in Queries :
        pc = "idle" /\ Start("run", create_initial_state(q), EntryPoint)

\* classifier_node(state), rag_response_node(state), escalation_node(state)
\* and _route_query(state) called on a hand-built state
CallClassifierNode ==
    \E st \in DirectStates :
        pc = "idle" /\ Start("classifier_node", st, "classifier")

CallRouteQuery ==
    \E st \in DirectStates :
        pc = "idle" /\ Start("route_query", st, "route")

CallEscalationNode ==
    \E st \in DirectStates :
        pc = "idle" /\ Start("escalation_node", st, "escalation")

CallRagNode ==
    \E st \in DirectStates :
        pc = "idle" /\ Start("rag_response_node", st, "rag")

\* handler.generate_escalation_message(category, query, confidence) called
\* directly, as test_message_content does
CallGenerateEscalationMessage ==
    \E category \in {Some(l) : l \in Labels} \cup {None},
       query \in DirectQueries, confidence \in Confidences :
        /\ pc = "idle"
        /\ call' = [fn |-> "generate_escalation_message",
                    category |-> category, query |-> query,
                    confidence |-> confidence,
                    result |-> generate_escalation_message(category, query,
                                                           Some(confidence))]
        /\ pc' = END
        /\ UNCHANGED <<state, visited, route, extcalls, rag, instances,
                       threads, globals, middleware>>

\* the classifier node
Classifier ==
    /\ pc = "classifier"
    /\ visited' = Append(visited, "classifier")
    /\ state' = Merge(classifier_node(state), state)
    /\ pc' = AfterClassifier
    /\ UNCHANGED <<call, route, extcalls, rag, instances, threads, globals, middleware>>

\* the conditional edge out of the classifier
Route ==
    /\ pc = "route"
    /\ visited' = Append(visited, "route")
    /\ LET decision == route_query(state)
       IN  /\ route' = Append(route, decision)
           /\ pc' = AfterRoute(decision)
    /\ UNCHANGED <<call, state, extcalls, rag, instances, threads, globals, middleware>>

\* escalation_node: get_escalation_handler(), then handler.process(state)
Escalation ==
    /\ pc = "escalation"
    /\ visited' = Append(visited, "escalation")
    /\ instances' = instances \cup {"escalation_handler"}
    /\ LET r == EscalationProcess(state)
       IN  /\ state' = Merge(r.state, state)
           /\ pc' = IF r.raised THEN "raised" ELSE AfterResponder("escalation")
    /\ UNCHANGED <<call, route, extcalls, rag, threads, globals, middleware>>

\* rag_response_node up to the first external call: get_rag_node() builds the
\* node on first use (RAGResponseNode() raises when the key, the model or the
\* index is unavailable), then process() runs up to generate_response
RagEnter ==
    /\ pc = "rag"
    /\ visited' = Append(visited, "rag")
    /\ \/ /\ "rag_node" \notin instances
          /\ pc' = "raised"
          /\ UNCHANGED <<instances>>
       \/ /\ instances' = instances \cup {"rag_node"}
          /\ LET category == Get(state, "classified_category", Some(""))
                 confidence == Get(state, "confidence_score", Some(0))
             IN  pc' = IF FormatRaises(confidence) THEN "raised"
                       ELSE IF ~should_use_rag(category) THEN AfterResponder("rag")
                       ELSE "rag_retrieve"
    /\ UNCHANGED <<call, state, route, extcalls, rag, threads, globals, middleware>>

\* mutant: the documents already retrieved are recorded whatever happens next
RagFinishKeepDocs(result) ==
    /\ state' = Merge(RagUpdatedState(state,
                    [result EXCEPT !.retrieved_documents =
                        IF rag.retrieved_docs # None
                        THEN formatted_docs(Val(rag.retrieved_docs)) ELSE @]),
                 state)
    /\ pc' = AfterResponder("rag")
    /\ rag' = NoLocals

\* process() from the point where generate_response has its result
RagFinish(result) ==
    /\ state' = Merge(RagUpdatedState(state, result), state)
    /\ pc' = AfterResponder("rag")
    /\ rag' = NoLocals

\* one external call, by whom, and the str(e) of its exception if it raised
ExtCall(op, by, raised) == [op |-> op, by |-> by, raised |-> raised]

\* an external call that never returns: no timeout is passed to the retriever
\* or to the model, and run() takes none, so the caller waits for ever
Blocked(entry) ==
    /\ extcalls' = Append(extcalls, Merge([pending |-> TRUE], entry))
    /\ pc' = "blocked"
    /\ UNCHANGED <<state, rag>>

\* retrieved_docs = self.rag_chain.retriever.invoke(query)
RagRetrieve ==
    /\ pc = "rag_retrieve"
    /\ \/ \E docs \in RetrievalResults :
            /\ extcalls' = Append(extcalls,
                    Merge([docs |-> docs], ExtCall("retrieve", "generate_response", None)))
            /\ rag' = [retrieved_docs |-> Some(docs)]
            /\ pc' = "chain_retrieve"
            /\ UNCHANGED state
       \/ Blocked(ExtCall("retrieve", "generate_response", None))
       \/ \E e \in RetrievalErrors :
            /\ extcalls' = Append(extcalls, ExtCall("retrieve", "generate_response", Some(e)))
            /\ RagFinish(FailureResult(e))
    /\ UNCHANGED <<call, visited, route, instances, threads, globals, middleware>>

\* rag_chain.query -> self.rag_chain.invoke(question): the chain's own
\* "context": self.retriever | self.format_docs
RagChainRetrieve ==
    /\ pc = "chain_retrieve"
    /\ \/ \E docs \in RetrievalResults :
            /\ extcalls' = Append(extcalls,
                    Merge([docs |-> docs], ExtCall("retrieve", "rag_chain", None)))
            /\ rag' = Merge([context |-> format_docs(docs)], rag)
            /\ pc' = "complete"
            /\ UNCHANGED state
       \/ Blocked(ExtCall("retrieve", "rag_chain", None))
       \/ \E e \in RetrievalErrors :
            /\ extcalls' = Append(extcalls, ExtCall("retrieve", "rag_chain", Some(e)))
            /\ RagFinish(FailureResult(e))
    /\ UNCHANGED <<call, visited, route, instances, threads, globals, middleware>>

\* mutant: a completion that raised is invoked a second time
RagCompleteRetry ==
    /\ pc = "complete"
    /\ \/ \E response \in Completions :
            /\ extcalls' = Append(extcalls,
                    Merge([context |-> rag.context], ExtCall("complete", "rag_chain", None)))
            /\ RagFinish(SuccessResult(response, Val(rag.retrieved_docs)))
       \/ \E e \in CompletionErrors :
            /\ extcalls' = Append(extcalls,
                    Merge([context |-> rag.context], ExtCall("complete", "rag_chain", Some(e))))
            /\ IF extcalls[Len(extcalls)].op = "complete"
               THEN RagFinish(FailureResult(e))
               ELSE pc' = "complete" /\ UNCHANGED <<state, rag>>
    /\ UNCHANGED <<call, visited, route, instances, threads, globals, middleware>>

\* prompt | self.llm | StrOutputParser(), then the rest of generate_response
RagComplete ==
    /\ pc = "complete"
    /\ \/ \E response \in Completions :
            /\ extcalls' = Append(extcalls,
                    Merge([context |-> rag.context], ExtCall("complete", "rag_chain", None)))
            /\ RagFinish(SuccessResult(response, Val(rag.retrieved_docs)))
       \/ Blocked(Merge([context |-> rag.context],
                         ExtCall("complete", "rag_chain", None)))
       \/ \E e \in CompletionErrors :
            /\ extcalls' = Append(extcalls,
                    Merge([context |-> rag.context], ExtCall("complete", "rag_chain", Some(e))))
            /\ RagFinish(FailureResult(e))
    /\ UNCHANGED <<call, visited, route, instances, threads, globals, middleware>>

\* the call hands its result, or its exception, to the caller; the state
\* record does not outlive the call
Return ==
    /\ pc \in {END, "raised"}
    /\ ~(call.fn = "run" /\ "request" \in DOMAIN call)
    /\ call' = [fn |-> "none"]
    /\ pc' = "idle"
    /\ state' = EmptyDict
    /\ visited' = <<>>
    /\ route' = <<>>
    /\ extcalls' = <<>>
    /\ rag' = NoLocals
    /\ UNCHANGED <<instances, threads, globals, middleware>>

Next ==
    \/ Run
    \/ CallClassifierNode
    \/ CallRouteQuery
    \/ CallEscalationNode
    \/ CallRagNode
    \/ CallGenerateEscalationMessage
    \/ Classifier
    \/ Route
    \/ Escalation
    \/ RagEnter
    \/ RagRetrieve
    \/ RagChainRetrieve
    \/ RagComplete
    \/ Return

Spec == Init /\ [][Next]_vars

\* the steps of a call in progress
Step ==
    \/ Classifier
    \/ Route
    \/ Escalation
    \/ RagEnter
    \/ RagRetrieve
    \/ RagChainRetrieve
    \/ RagComplete

----------------------------------------------------------------------------
\* Concurrent callers.  Each thread does get_workflow().run(query), as the
\* test drivers do, while the other thread does the same.  The state record
\* is local to the run; the three module-level singletons are shared.  The
\* getters are not atomic: "if _x is None" is one step, "_x = X()" a second,
\* "return _x" a third, and the other thread may run in between.

\* the variables of the one-call-at-a-time specification
sequential == <<call, pc, state, visited, route, extcalls, rag, instances>>

\* queries the concurrent callers send
ConcQueries ==
    { EmptyText, <<"P","r","i","c","e">>, <<"R","e","f","u","n","d">> }

\* what generate_response(query) may return to process()
GenerateResults ==
    {SuccessResult(response, docs) :
        response \in Completions, docs \in {r \in RetrievalResults : Len(r) <= 1}}
    \cup {FailureResult(e) : e \in RetrievalErrors}

\* a thread that has entered get_workflow()
EnteredThread(q) ==
    [IdleThread EXCEPT !.pc = "check", !.getting = "workflow", !.query = q]

\* mutant: one state record shared by every run
ThreadStateShared(t) == threads[1].state

\* the ChatbotState graph.invoke hands to a node: the calling run's own
ThreadState(t) == threads[t].state

\* where a thread goes on once its getter has returned
AfterGetter(k) ==
    CASE k = "workflow" -> "create_state"
      [] k = "rag_node" -> "rag_process"
      [] k = "escalation_handler" -> "escalation_process"

\* a caller starts: get_workflow()
ConcBegin(t) ==
    \E q \in ConcQueries :
        /\ threads[t].pc = "idle"
        /\ threads' = [threads EXCEPT ![t] = EnteredThread(q)]
        /\ UNCHANGED <<globals, sequential, middleware>>

\* if _instance is None:
GetterCheck(t) ==
    /\ threads[t].pc = "check"
    /\ threads' = [threads EXCEPT ![t].pc =
            IF globals.instance[threads[t].getting] = None
            THEN "construct" ELSE "return_instance"]
    /\ UNCHANGED <<globals, sequential, middleware>>

\* _instance = ChatbotWorkflow() / RAGResponseNode() / EscalationHandler();
\* RAGResponseNode() raises when the key, the model or the index is unavailable
GetterConstruct(t) ==
    LET k == threads[t].getting
    IN  /\ threads[t].pc = "construct"
        /\ \/ /\ globals' =
                    [globals EXCEPT
                        !.instance[k] = Some(globals.constructed[k] + 1),
                        !.constructed[k] = globals.constructed[k] + 1]
              /\ threads' = [threads EXCEPT ![t].pc = "return_instance"]
           \/ /\ k = "rag_node"
              /\ threads' = [threads EXCEPT ![t].pc = "raised"]
              /\ UNCHANGED globals
        /\ UNCHANGED <<sequential, middleware>>

\* return _instance
GetterReturn(t) ==
    LET k == threads[t].getting
    IN  /\ threads[t].pc = "return_instance"
        /\ threads' = [threads EXCEPT ![t].handle[k] = globals.instance[k],
                                      ![t].pc = AfterGetter(k)]
        /\ UNCHANGED <<globals, sequential, middleware>>

\* run(): initial_state = create_initial_state(user_query); graph.invoke
ConcCreateState(t) ==
    /\ threads[t].pc = "create_state"
    /\ threads' = [threads EXCEPT ![t].state = create_initial_state(threads[t].query),
                                  ![t].pc = EntryPoint]
    /\ UNCHANGED <<globals, sequential, middleware>>

\* the classifier node of this thread's run
ConcClassifier(t) ==
    /\ threads[t].pc = "classifier"
    /\ threads' = [threads EXCEPT
            ![t].state = Merge(classifier_node(ThreadState(t)), threads[t].state),
            ![t].pc = "route"]
    /\ UNCHANGED <<globals, sequential, middleware>>

\* the conditional edge, then the chosen node's getter
ConcRoute(t) ==
    /\ threads[t].pc = "route"
    /\ LET decision == route_query(ThreadState(t))
       IN  threads' = [threads EXCEPT
                ![t].route = Some(decision),
                ![t].getting = IF ConditionalEdges[decision] = "rag"
                               THEN "rag_node" ELSE "escalation_handler",
                ![t].pc = "check"]
    /\ UNCHANGED <<globals, sequential, middleware>>

\* handler.process(state)
ConcEscalation(t) ==
    /\ threads[t].pc = "escalation_process"
    /\ LET r == EscalationProcess(ThreadState(t))
       IN  threads' = [threads EXCEPT
                ![t].state = Merge(r.state, threads[t].state),
                ![t].pc = IF r.raised THEN "raised" ELSE "done"]
    /\ UNCHANGED <<globals, sequential, middleware>>

\* rag_node.process(state), with the replies its collaborators give this run
ConcRag(t) ==
    /\ threads[t].pc = "rag_process"
    /\ LET st == ThreadState(t)
       IN  IF FormatRaises(Get(st, "confidence_score", Some(0)))
           THEN threads' = [threads EXCEPT ![t].pc = "raised"]
           ELSE IF ~should_use_rag(Get(st, "classified_category", Some("")))
           THEN threads' = [threads EXCEPT ![t].pc = "done"]
           ELSE \E result \in GenerateResults :
                    threads' = [threads EXCEPT
                        ![t].reply = Some(result),
                        ![t].state = Merge(RagUpdatedState(st, result), threads[t].state),
                        ![t].pc = "done"]
    /\ UNCHANGED <<globals, sequential, middleware>>

\* run() hands its terminal state, or its exception, to the caller
ConcReturn(t) ==
    /\ threads[t].pc \in {"done", "raised"}
    /\ threads' = [threads EXCEPT ![t] = IdleThread]
    /\ UNCHANGED <<globals, sequential, middleware>>

ConcNext ==
    \E t \in Threads :
        \/ ConcBegin(t)
        \/ GetterCheck(t)
        \/ GetterConstruct(t)
        \/ GetterReturn(t)
        \/ ConcCreateState(t)
        \/ ConcClassifier(t)
        \/ ConcRoute(t)
        \/ ConcEscalation(t)
        \/ ConcRag(t)
        \/ ConcReturn(t)

ConcSpec == Init /\ [][ConcNext]_vars

----------------------------------------------------------------------------
\* api/main.py: the service around the workflow.  "chatbot_workflow" in
\* instances stands for the module's chatbot_workflow global being set.

min_length == 1
max_length == 500

\* ChatRequest: query: str = Field(..., min_length=1, max_length=500); a body
\* that fails validation is answered 422 before chat() is entered
ChatRequestValid(query) == Len(query) >= min_length /\ Len(query) <= max_length

\* mutant: the query tested without strip()
IsBlankUnstripped(query) == query = EmptyText

\* not request.query or not request.query.strip()
IsBlank(query) == query = EmptyText \/ Strip(query) = EmptyText

\* ChatResponse(...): response, category and confidence are required fields
ChatResponseValid(result) ==
    /\ Get(result, "final_response", Some(EmptyText)) # None
    /\ Get(result, "classified_category", Some("unknown")) # None
    /\ Get(result, "confidence_score", Some(0)) # None

\* the call in progress is the run() that chat() started
ViaChat == "request" \in DOMAIN call /\ call.fn = "run"

\* chat() answers without having called the workflow
Rejected(query, code) ==
    /\ call' = [fn |-> "chat", request |-> query, status |-> code]
    /\ pc' = END
    /\ state' = EmptyDict

\* startup_event: chatbot_workflow = get_workflow(), an exception is logged
\* and leaves chatbot_workflow None
StartupEvent ==
    /\ pc = "idle"
    /\ "chatbot_workflow" \notin instances
    /\ \/ instances' = instances \cup {"workflow", "chatbot_workflow"}
       \/ UNCHANGED instances
    /\ UNCHANGED <<call, pc, state, visited, route, extcalls, rag, threads, globals, middleware>>

\* POST /chat up to the call of chatbot_workflow.run
Chat ==
    \E query \in Queries :
        /\ pc = "idle"
        /\ IF ~ChatRequestValid(query) THEN Rejected(query, "422")
           ELSE IF "chatbot_workflow" \notin instances THEN Rejected(query, "503")
           ELSE IF IsBlank(query) THEN Rejected(query, "400")
           ELSE /\ call' = [fn |-> "run", request |-> query]
                /\ state' = create_initial_state(Strip(query))
                /\ pc' = EntryPoint
        /\ visited' = <<>>
        /\ route' = <<>>
        /\ extcalls' = <<>>
        /\ rag' = NoLocals
        /\ UNCHANGED <<instances, threads, globals, middleware>>

\* chat() after run() has returned or raised: the ChatResponse, or the 500
\* of the except branch
ChatRespond ==
    /\ ViaChat
    /\ pc \in {END, "raised"}
    /\ call' = [fn |-> "chat", request |-> call.request,
                status |-> IF pc = END /\ ChatResponseValid(state)
                           THEN "200" ELSE "500"]
    /\ pc' = END
    /\ UNCHANGED <<state, visited, route, extcalls, rag, instances, threads, globals, middleware>>

ApiNext ==
    \/ StartupEvent
    \/ Chat
    \/ Step
    \/ ChatRespond
    \/ Return

ApiSpec == Init /\ [][ApiNext]_vars

----------------------------------------------------------------------------
\* QueryClassifier.classify called on its own, on a query and on every
\* combination of per-category counts the tables allow.

\* every category_scores the tables allow: 0..len(keywords) per category
ScoreTable ==
    {s \in [1..Len(CATEGORY_KEYWORDS) -> 0..Len(CATEGORY_KEYWORDS[1].keywords)] :
        \A i \in 1..Len(CATEGORY_KEYWORDS) : s[i] <= Len(CATEGORY_KEYWORDS[i].keywords)}

\* classify() from the point where category_scores is filled
CallClassifyScores ==
    \E scores \in ScoreTable :
        /\ pc = "idle"
        /\ call' = [fn |-> "classify", scores |-> scores,
                    result |-> ClassifyScores(scores)]
        /\ pc' = END
        /\ UNCHANGED <<state, visited, route, extcalls, rag, instances,
                       threads, globals, middleware>>

\* classifier.classify(query)
CallClassify ==
    \E query \in Queries :
        /\ pc = "idle"
        /\ call' = [fn |-> "classify", query |-> query,
                    scores |-> category_scores(preprocess_query(query)),
                    result |-> classify(query)]
        /\ pc' = END
        /\ UNCHANGED <<state, visited, route, extcalls, rag, instances,
                       threads, globals, middleware>>

ClassifyNext ==
    \/ CallClassifyScores
    \/ CallClassify
    \/ Return

ClassifySpec == Init /\ [][ClassifyNext]_vars

----------------------------------------------------------------------------
\* middleware/rate_limit.py.  Time is time.time() in whole seconds; a
\* timestamp list is a sequence; a defaultdict(list) is a function whose
\* absent (or deleted) keys hold the empty list.

\* RateLimiter(requests_per_minute=..., requests_per_hour=...) of the run
requests_per_minute == 2
requests_per_hour == 3

MaxCalls == 4       \* is_allowed is called at most this many times

\* client addresses
Identifiers == {"192.168.1.1", "10.0.0.7"}

\* seconds between one call and the next
Delays == {0, 59, 60, 300, 3540}

RECURSIVE SeqMin(_)
SeqMin(s) ==
    IF Len(s) = 1 THEN s[1]
    ELSE LET m == SeqMin(Tail(s)) IN IF Head(s) < m THEN Head(s) ELSE m

\* [ts for ts in requests if ts > cutoff]
After(requests, cutoff) == SelectSeq(requests, LAMBDA ts : ts > cutoff)

\* RateLimiter.__init__
NewRateLimiter(now) ==
    [minute_requests |-> [id \in Identifiers |-> <<>>],
     hour_requests |-> [id \in Identifiers |-> <<>>],
     last_cleanup |-> now]

\* mutant: both lists pruned at one minute
cleanup_old_requests_by_minute(self, now) ==
    IF now - self.last_cleanup < 300 THEN self
    ELSE [minute_requests |->
            [id \in Identifiers |-> After(self.minute_requests[id], now - 60)],
          hour_requests |->
            [id \in Identifiers |-> After(self.hour_requests[id], now - 60)],
          last_cleanup |-> now]

\* RateLimiter._cleanup_old_requests
cleanup_old_requests(self, now) ==
    IF now - self.last_cleanup < 300 THEN self
    ELSE LET one_hour_ago == now - 3600
         IN  [minute_requests |->
                [id \in Identifiers |-> After(self.minute_requests[id], one_hour_ago)],
              hour_requests |->
                [id \in Identifiers |-> After(self.hour_requests[id], one_hour_ago)],
              last_cleanup |-> now]

\* RateLimiter.is_allowed(identifier) at time now: the answer and the
\* limiter it leaves
is_allowed(self, identifier, now) ==
    LET one_minute_ago == now - 60
        one_hour_ago == now - 3600
        cleaned == cleanup_old_requests(self, now)
        recent_minute == After(cleaned.minute_requests[identifier], one_minute_ago)
        recent_hour == After(cleaned.hour_requests[identifier], one_hour_ago)
    IN  IF Len(recent_minute) >= requests_per_minute
        THEN [allowed |-> FALSE, reason |-> "per minute",
              retry_after |-> 60 - (now - SeqMin(recent_minute)),
              self |-> cleaned]
        ELSE IF Len(recent_hour) >= requests_per_hour
        THEN [allowed |-> FALSE, reason |-> "per hour",
              retry_after |-> 3600 - (now - SeqMin(recent_hour)),
              self |-> cleaned]
        ELSE [allowed |-> TRUE, reason |-> "",
              retry_after |-> 0,
              self |-> [cleaned EXCEPT
                          !.minute_requests[identifier] = Append(@, now),
                          !.hour_requests[identifier] = Append(@, now)]]

\* limiter = RateLimiter(...)
CreateRateLimiter ==
    /\ limiter = None
    /\ limiter' = Some(NewRateLimiter(clock))
    /\ UNCHANGED <<call, pc, state, visited, route, extcalls, rag, instances,
                   threads, globals, env, clock, log>>

\* limiter.is_allowed(identifier), some seconds after the call before
IsAllowed ==
    \E identifier \in Identifiers, delay \in Delays :
        /\ limiter # None
        /\ Len(log) < MaxCalls
        /\ LET now == clock + delay
               answer == is_allowed(Val(limiter), identifier, now)
           IN  /\ clock' = now
               /\ limiter' = Some(answer.self)
               /\ log' = Append(log, [identifier |-> identifier, now |-> now,
                                      allowed |-> answer.allowed,
                                      reason |-> answer.reason,
                                      retry_after |-> answer.retry_after])
        /\ UNCHANGED <<call, pc, state, visited, route, extcalls, rag, instances,
                       threads, globals, env>>

RateNext ==
    \/ CreateRateLimiter
    \/ IsAllowed

RateSpec == Init /\ [][RateNext]_vars

----------------------------------------------------------------------------
\* middleware/auth.py.  A bearer token is what jwt.decode makes of it: whether
\* the signature verifies, whether exp has passed, and the "sub" it carries.

ApiKeys == {"key-1", "key-2"}

\* API_KEY_AUTH_ENABLED and VALID_API_KEYS as the environment may set them
AuthSettings ==
    {[API_KEY_AUTH_ENABLED |-> enabled, VALID_API_KEYS |-> keys] :
        enabled \in BOOLEAN, keys \in SUBSET ApiKeys}

\* the X-API-Key header: absent, empty, or some key
PresentedKeys == {None, Some("")} \cup {Some(k) : k \in ApiKeys \cup {"stale-key"}}

BearerTokens ==
    {[signed |-> signed, expired |-> expired, sub |-> sub] :
        signed \in BOOLEAN, expired \in BOOLEAN, sub \in {None, Some("alice")}}

\* the Authorization header: absent, or a bearer token
Credentials == {None} \cup {Some(token) : token \in BearerTokens}

\* what a dependency hands back: its value, or the detail of the
\* HTTPException(401) it raised
Returns(value) == [raised |-> None, value |-> value]
Raises401(detail) == [raised |-> Some(detail), value |-> None]

\* verify_api_key
verify_api_key(settings, api_key) ==
    IF ~settings.API_KEY_AUTH_ENABLED THEN Returns(TRUE)
    ELSE IF api_key = None \/ api_key = Some("") THEN Raises401("API key is missing")
    ELSE IF Val(api_key) \notin settings.VALID_API_KEYS THEN Raises401("Invalid API key")
    ELSE Returns(TRUE)

\* verify_token: jwt.decode raises JWTError on a bad signature or a passed exp
verify_token(token) ==
    IF ~token.signed \/ token.expired THEN Raises401("Invalid token")
    ELSE IF token.sub = None THEN Raises401("Could not validate credentials")
    ELSE Returns([username |-> Val(token.sub)])

\* get_current_user
get_current_user(credentials) ==
    IF credentials = None THEN Raises401("Not authenticated")
    ELSE verify_token(Val(credentials))

\* the body of verify_authentication
verify_authentication(settings, api_key_valid, user) ==
    IF settings.API_KEY_AUTH_ENABLED /\ api_key_valid THEN Returns(TRUE)
    ELSE IF user # None THEN Returns(TRUE)
    ELSE IF ~settings.API_KEY_AUTH_ENABLED THEN Returns(TRUE)
    ELSE Raises401("Authentication required")

\* import middleware.auth: the settings are read once
ImportAuth ==
    /\ env = None
    /\ \E settings \in AuthSettings : env' = Some(settings)
    /\ UNCHANGED <<call, pc, state, visited, route, extcalls, rag, instances,
                   threads, globals, limiter, clock, log>>

\* a request reaches an endpoint that Depends(verify_authentication)
AuthRequest ==
    \E api_key \in PresentedKeys, credentials \in Credentials :
        /\ pc = "idle"
        /\ env # None
        /\ call' = [fn |-> "verify_authentication",
                    api_key |-> api_key, credentials |-> credentials]
        /\ pc' = "verify_api_key"
        /\ UNCHANGED <<state, visited, route, extcalls, rag, instances,
                       threads, globals, middleware>>

\* a dependency or the body has answered: go on, or fail the request with 401
Answer(result, key, next) ==
    /\ IF result.raised # None
       THEN /\ call' = Merge([status |-> "401", detail |-> Val(result.raised)], call)
            /\ pc' = "raised"
       ELSE /\ call' = Merge([k \in {key} |-> result.value], call)
            /\ pc' = next
    /\ UNCHANGED <<state, visited, route, extcalls, rag, instances,
                   threads, globals, middleware>>

\* Depends(verify_api_key), solved before the body runs
ResolveApiKey ==
    /\ pc = "verify_api_key"
    /\ Answer(verify_api_key(Val(env), call.api_key), "api_key_valid", "get_current_user")

\* Depends(get_current_user), solved before the body runs
ResolveCurrentUser ==
    /\ pc = "get_current_user"
    /\ Answer(get_current_user(call.credentials), "user", "verify_authentication")

\* the body, entered only when both dependencies returned
VerifyAuthentication ==
    /\ pc = "verify_authentication"
    /\ Answer(verify_authentication(Val(env), call.api_key_valid, Some(call.user)),
              "granted", END)

AuthNext ==
    \/ ImportAuth
    \/ AuthRequest
    \/ ResolveApiKey
    \/ ResolveCurrentUser
    \/ VerifyAuthentication
    \/ Return

AuthSpec == Init /\ [][AuthNext]_vars

----------------------------------------------------------------------------
\* Properties.

InRun == call.fn = "run"
Returned == pc = END

IsPrefix(s, t) == Len(s) <= Len(t) /\ SubSeq(t, 1, Len(s)) = s

RagPath == <<"classifier", "route", "rag">>
EscalationPath == <<"classifier", "route", "escalation">>

\* C1: a run enters Classify, then Route, then exactly one of RAG and
\* Escalate (the one the router chose), and is then done; no stage is
\* entered twice and none is skipped.
C1_StageOrder ==
    InRun =>
        /\ \E full \in {RagPath, EscalationPath} :
              /\ IsPrefix(visited, full)
              /\ Returned => visited = full
        /\ Len(route) = (IF Len(visited) >= 2 THEN 1 ELSE 0)
        /\ Len(visited) = 3 => visited[3] = route[1]
        /\ pc = "classifier" <=> visited = <<>>
        /\ pc = "route" <=> visited = <<"classifier">>

C1_Witness == InRun /\ Returned /\ visited = RagPath /\ route = <<"rag">>

\* C2: the state a run returns has a final_response that is not None.
C2_FinalResponseSet ==
    InRun /\ Returned =>
        "final_response" \in DOMAIN state /\ state.final_response # None

C2_Witness ==
    InRun /\ Returned /\ state.final_response = Some(get_returns_message)

EscalationTemplates ==
    {get_returns_message, get_out_of_scope_message,
     get_policy_inquiry_message, get_general_escalation_message}

\* the escalation node wrote the response
EscalationProduced ==
    /\ visited[Len(visited)] = "escalation"
    /\ state.final_response \in {Some(m) : m \in EscalationTemplates}
    /\ "escalation_reason" \in DOMAIN state.metadata

\* the RAG node wrote the response
RagProduced ==
    /\ visited[Len(visited)] = "rag"
    /\ state.final_response # None
    /\ Get(state.metadata, "response_source", "") = "rag_chain"

CategoryDomain == {"product", "returns", "general"}

HasCategory == "classified_category" \in DOMAIN state

RagCategories == {Some("product"), Some("general")}

\* C5 (as amended): the router never raises and its decision is a function
\* of the category alone: product and general go to RAG; returns, None and
\* every other label go to escalation; a state with no classified_category
\* key at all counts as general and goes to RAG.
C5_RouterTable ==
    route # <<>> =>
        /\ Len(route) = 1
        /\ route[1] \in {"rag", "escalation"}
        /\ route[1] = "rag" <=> (~HasCategory \/ state.classified_category \in RagCategories)
        /\ call.fn = "route_query" => Returned

C5_Witness ==
    call.fn = "route_query" /\ Returned /\ ~HasCategory /\ route = <<"rag">>

\* C5 as claimed: only product and general go to RAG; every other value,
\* a missing category included, goes to escalation.
C5_MissingGoesToEscalation ==
    route # <<>> =>
        (route[1] = "rag" <=> (HasCategory /\ state.classified_category \in RagCategories))

UnknownLabels == Labels \ (CategoryDomain \cup {""})

\* C6: a state whose category is a label outside product, general, returns
\* is routed to escalation, and the escalation node then returns, without
\* raising, a state whose final_response is not None.
C6_UnknownCategoryAnswered ==
    HasCategory /\ state.classified_category \in {Some(l) : l \in UnknownLabels} =>
        /\ call.fn = "route_query" /\ Returned => route = <<"escalation">>
        /\ call.fn = "escalation_node" /\ pc \in {END, "raised"}
                /\ Get(state, "confidence_score", None) # None =>
              /\ pc = END
              /\ state.final_response # None

\* C7: the escalation node, called on a state with any category label,
\* returns a non-empty final_response, needs_escalation true, and
\* escalation_reason, support_email and support_phone in metadata.
C7_EscalationAlwaysResponds ==
    /\ call.fn = "escalation_node" /\ Returned
    /\ HasCategory /\ state.classified_category \in {Some(l) : l \in Labels \ {""}}
    =>
    /\ state.final_response # None
    /\ state.final_response # Some(EmptyText)
    /\ state.needs_escalation
    /\ {"escalation_reason", "support_email", "support_phone"} \subseteq DOMAIN state.metadata
    /\ state.metadata.support_email = SUPPORT_EMAIL
    /\ state.metadata.support_phone = SUPPORT_PHONE

\* an external call of this call raised
Failed == \E i \in 1..Len(extcalls) : extcalls[i].raised # None

\* C8: when a retrieval or the completion raises inside the RAG node, the
\* node returns instead of raising, final_response is the fixed apology
\* whichever call failed and whatever its text, and metadata.error holds
\* that text.
C8_FailureDegrades ==
    Failed =>
        /\ Returned
        /\ state.final_response = Some(ApologyMessage)
        /\ "error" \in DOMAIN state.metadata
        /\ state.metadata.error = extcalls[Len(extcalls)].raised

C8_Witness ==
    /\ Returned
    /\ extcalls # <<>>
    /\ extcalls[Len(extcalls)].op = "complete"
    /\ extcalls[Len(extcalls)].raised = Some("timeout")

\* C9: a run on the empty query makes no retrieval call and no completion
\* call.
C9_EmptyQueryNoExternalCalls ==
    InRun /\ state.user_query = EmptyText => extcalls = <<>>

\* the classifier node has just returned
Classified ==
    /\ visited = <<"classifier">>
    /\ pc = "route" \/ (call.fn = "classifier_node" /\ Returned)

\* C10: for an empty or missing query the classifier node sets category
\* general and confidence 0.0, records the error marker in metadata and
\* computes no classification_scores.
C10_EmptyQueryClassification ==
    Classified /\ Get(state, "user_query", EmptyText) = EmptyText =>
        /\ state.classified_category = Some("general")
        /\ state.confidence_score = Some(0)
        /\ state.metadata = [error |-> Some("Empty query")]
        /\ "classification_scores" \notin DOMAIN state.metadata

C10_Witness ==
    /\ call.fn = "classifier_node" /\ Returned
    /\ "user_query" \notin DOMAIN state
    /\ state.metadata = [error |-> Some("Empty query")]

----------------------------------------------------------------------------
\* C11: metadata is append-only across a run: a key an earlier stage has
\* recorded keeps its value through every later step of the run.
C11_MetadataAppendOnly ==
    [][InRun /\ call'.fn = "run" =>
        \A k \in DOMAIN state.metadata :
            /\ k \in DOMAIN state'.metadata
            /\ state'.metadata[k] = state.metadata[k]]_vars

\* C12: within one run user_query never changes, and classified_category is
\* assigned by the classifier step and by no other step.
C12_CategoryAssignedOnce ==
    [][InRun /\ call'.fn = "run" =>
        /\ state'.user_query = state.user_query
        /\ pc = "classifier" =>
                /\ state.classified_category = None
                /\ state'.classified_category # None
        /\ pc # "classifier" =>
                state'.classified_category = state.classified_category]_vars

C12_Witness ==
    /\ InRun /\ Returned
    /\ visited = EscalationPath
    /\ state.classified_category = Some("returns")
    /\ state.user_query # EmptyText
    /\ state.final_response = Some(get_returns_message)
    /\ state.needs_escalation

\* an external call of the run has been made and has not returned
PendingCall ==
    /\ extcalls # <<>>
    /\ "pending" \in DOMAIN extcalls[Len(extcalls)]

\* C13: a retrieval or completion call that does not return is treated as a
\* failure, so the run is never left waiting: while such a call is pending the
\* run still has a step to take (the one that degrades to the apology).
C13_BlockedCallDegrades == InRun /\ PendingCall => ENABLED Step

\* what classifier_node makes of a fresh state record for each query
Classifications ==
    [q \in ConcQueries |-> classifier_node(create_initial_state(q))]

Classification(q) == Classifications[q]

\* the terminal state of a run of the query on its own, given the reply its
\* own collaborators gave
RunOutcome(q, reply) ==
    LET s == Classification(q)
    IN  IF route_query(s) = "rag"
        THEN IF should_use_rag(s.classified_category)
             THEN RagUpdatedState(s, Val(reply))
             ELSE s
        ELSE EscalationProcess(s).state

\* the thread's run has passed its classifier
PastClassifier(t) ==
    threads[t].pc \in {"route", "check", "construct", "return_instance",
                       "rag_process", "escalation_process", "done", "raised"}
    /\ threads[t].state # EmptyDict
    /\ threads[t].state.classified_category # None

C15_SingletonsConstructedOnce ==
    \A k \in Singletons :
        /\ globals.constructed[k] <= 1
        /\ \A t, u \in Threads :
            threads[t].handle[k] # None /\ threads[u].handle[k] # None =>
                threads[t].handle[k] = threads[u].handle[k]

Answered == call.fn = "chat"

WorkflowReady == "chatbot_workflow" \in instances

\* the stages of the request's run that entered the classifier
ClassifierEntries == SelectSeq(visited, LAMBDA s : s = "classifier")

Contains(msg, fragment) == \E i \in 1..Len(msg) : msg[i] = fragment

GeneratedMessage == call.fn = "generate_escalation_message"

\* an escalation node call has returned an escalation response
Escalated ==
    /\ Returned
    /\ visited # <<>> /\ visited[Len(visited)] = "escalation"
    /\ Get(state, "needs_escalation", FALSE)

\* C17: every escalation message, whatever the category, carries the support
\* email support@techgear.com and the support phone 1800-123-4567.
C17_MessagesCarryEmailAndPhone ==
    /\ SUPPORT_EMAIL = "support@techgear.com"
    /\ SUPPORT_PHONE = "1800-123-4567"
    /\ GeneratedMessage =>
        /\ Contains(call.result.response, SUPPORT_EMAIL)
        /\ Contains(call.result.response, SUPPORT_PHONE)
    /\ Escalated =>
        /\ Contains(Val(state.final_response), SUPPORT_EMAIL)
        /\ Contains(Val(state.final_response), SUPPORT_PHONE)

C17_Witness ==
    /\ GeneratedMessage
    /\ call.category = Some("out_of_scope")
    /\ call.result.response = get_out_of_scope_message
    /\ Contains(call.result.response, "1800-123-4567")

\* C18: each of the four templates carries the support email, phone, hours
\* and website.
C18_TemplatesCarryAllContacts ==
    GeneratedMessage =>
        \A field \in {SUPPORT_EMAIL, SUPPORT_PHONE, SUPPORT_HOURS, SUPPORT_WEBSITE} :
            Contains(call.result.response, field)

\* the template and the reason the category stands for
TemplateOf(category) ==
    CASE category = Some("returns") -> get_returns_message
      [] category = Some("out_of_scope") -> get_out_of_scope_message
      [] category = Some("policy_inquiry") -> get_policy_inquiry_message
      [] OTHER -> get_general_escalation_message

ReasonOf(category) ==
    CASE category = Some("returns") -> "return_refund_request"
      [] category = Some("out_of_scope") -> "query_outside_knowledge_base"
      [] category = Some("policy_inquiry") -> "policy_clarification_needed"
      [] OTHER -> "general_support_needed"

\* C19: the template and the escalation reason are fixed by the category
\* alone, whatever the query text and the confidence; every category other
\* than returns, out_of_scope and policy_inquiry gets the general template.
C19_TemplateByCategoryOnly ==
    /\ GeneratedMessage =>
        /\ call.result.response = TemplateOf(call.category)
        /\ call.result.escalation_reason = ReasonOf(call.category)
    /\ Escalated =>
        /\ state.final_response = Some(TemplateOf(state.classified_category))
        /\ state.metadata.escalation_reason = ReasonOf(state.classified_category)

C19_Witness ==
    /\ GeneratedMessage
    /\ call.category = Some("complaint")
    /\ call.query # EmptyText
    /\ call.confidence = NoMatchConfidence
    /\ call.result.response = get_general_escalation_message
    /\ call.result.escalation_reason = "general_support_needed"

\* the i-th external call is a retrieval of the chain that returned no document
EmptyChainRetrieval(i) ==
    /\ extcalls[i].op = "retrieve"
    /\ extcalls[i].by = "rag_chain"
    /\ "docs" \in DOMAIN extcalls[i]
    /\ extcalls[i].docs = <<>>

\* C20: when the retriever returns no document the context is the sentinel
\* "No relevant information found.", the completion is invoked next with that
\* context, and the call returns a final_response that is not None.
C20_NoDocumentsSentinel ==
    /\ NoContextSentinel = <<"No relevant information found.">>
    /\ \A i \in 1..Len(extcalls) :
        EmptyChainRetrieval(i) =>
            /\ i = Len(extcalls) =>
                    pc = "complete" /\ rag.context = NoContextSentinel
            /\ i < Len(extcalls) =>
                    /\ extcalls[i + 1].op = "complete"
                    /\ extcalls[i + 1].context = NoContextSentinel
            /\ Returned => state.final_response # None

C20_Witness ==
    /\ InRun /\ Returned
    /\ Len(extcalls) = 3
    /\ EmptyChainRetrieval(2)
    /\ extcalls[1].docs = <<>>
    /\ extcalls[3].op = "complete"
    /\ extcalls[3].raised = None
    /\ extcalls[3].context = <<"No relevant information found.">>
    /\ state.final_response # None
    /\ state.metadata.document_count = 0

----------------------------------------------------------------------------
\* the per-category counts of the query the classifier node was given
QueryScores == category_scores(preprocess_query(Get(state, "user_query", EmptyText)))

NoMatch == \A i \in 1..Len(QueryScores) : QueryScores[i] = 0

\* C21: when no pattern of any category matches a non-empty query, the
\* classifier returns category general with confidence exactly 0.3.
C21_NoMatchFallback ==
    /\ NoMatchConfidence = 30
    /\ Classified /\ Get(state, "user_query", EmptyText) # EmptyText /\ NoMatch =>
        /\ state.classified_category = Some("general")
        /\ state.confidence_score = Some(NoMatchConfidence)
        /\ \A c \in DOMAIN state.metadata.classification_scores :
                state.metadata.classification_scores[c] = 0

C21_Witness ==
    /\ Classified /\ InRun
    /\ state.user_query = <<"l","a","p","t","o","p">>
    /\ state.classified_category = Some("general")
    /\ state.confidence_score = Some(30)

----------------------------------------------------------------------------
CalledClassify == call.fn = "classify"

\* the category at index i holds the highest count and is the first to do so
FirstHighest(scores, i) ==
    /\ \A j \in 1..Len(scores) : scores[j] <= scores[i]
    /\ \A j \in 1..(i - 1) : scores[j] < scores[i]

Abs(x) == IF x < 0 THEN 0 - x ELSE x

\* C23: when at least one pattern matches, confidence is winningCount / sum
\* of the counts, plus 0.2 and capped at 1.0 when winningCount > 1, rounded
\* to two decimals; it lies in [0, 1] for every combination of counts.
C23_ConfidenceFormula ==
    /\ Boost = 20 /\ FullConfidence = 100
    /\ CalledClassify /\ SeqMax(call.scores) > 0 =>
        LET winningCount == SeqMax(call.scores)
            total == SeqSum(call.scores)
            ratio == FullConfidence * winningCount          \* over total
            boosted == ratio + Boost * total                \* over total
            exact == IF winningCount = 1 THEN ratio
                     ELSE IF boosted > FullConfidence * total
                          THEN FullConfidence * total
                          ELSE boosted
            confidence == call.result.confidence
        IN  /\ 2 * Abs(confidence * total - exact) <= total
            /\ confidence \in 0..FullConfidence

C23_Witness ==
    /\ CalledClassify
    /\ call.scores = <<2, 1, 0>>
    /\ call.result.confidence = 87

----------------------------------------------------------------------------
\* the external calls of the call in progress that invoked the completion
CompleteCalls == {i \in 1..Len(extcalls) : extcalls[i].op = "complete"}

\* the retrievals of the call in progress that returned documents
Retrieved == {i \in 1..Len(extcalls) : extcalls[i].op = "retrieve" /\ "docs" \in DOMAIN extcalls[i]}

\* C24: within one RAG response the completion is invoked exactly once: a
\* completion that failed is the last external call of the response (no
\* retry), and once the retrievals have succeeded the completion is invoked
\* before the response is returned (not skipped).
C24_CompletionInvokedOnce ==
    /\ Cardinality(CompleteCalls) <= 1
    /\ \A i \in CompleteCalls :
        /\ i = Len(extcalls)
        /\ extcalls[i].raised # None => Returned
    /\ Cardinality(Retrieved) = 2 =>
        \/ pc = "complete" /\ CompleteCalls = {}
        \/ Cardinality(CompleteCalls) = 1
    /\ Returned /\ Cardinality(Retrieved) = 2 => Cardinality(CompleteCalls) = 1

C24_Witness ==
    /\ InRun /\ Returned
    /\ Len(extcalls) = 3
    /\ Retrieved = {1, 2}
    /\ CompleteCalls = {3}
    /\ extcalls[3].raised = Some("completion failed")

----------------------------------------------------------------------------
\* the RAG node returned the completion's answer
RagSucceeded ==
    /\ Returned
    /\ CompleteCalls # {}
    /\ extcalls[Len(extcalls)].raised = None

----------------------------------------------------------------------------
\* the retrievals of the call in progress
RetrieveCalls == {i \in 1..Len(extcalls) : extcalls[i].op = "retrieve"}

\* C28: the retriever is queried once per RAG response, and the documents
\* recorded in retrieved_documents are the ones whose content formed the
\* context of the completion that produced final_response.
C28_RecordedDocumentsFormedPrompt ==
    RagSucceeded =>
        /\ Cardinality(RetrieveCalls) = 1
        /\ extcalls[Len(extcalls)].context = format_docs(extcalls[1].docs)

\* the RAG node answered with the apology
Degraded ==
    /\ Returned
    /\ visited # <<>> /\ visited[Len(visited)] = "rag"
    /\ Get(state, "final_response", None) = Some(ApologyMessage)

\* C30: when the RAG node degrades to the apology the state it returns has
\* retrieved_documents = [] and document_count 0, also when the retrievals
\* succeeded and only the completion failed; retrieved_documents is
\* non-empty only if the retrievals and the completion all succeeded.
C30_ApologyCarriesNoDocuments ==
    /\ Degraded \/ Failed =>
        /\ Degraded /\ Failed
        /\ state.retrieved_documents = Some(<<>>)
        /\ state.metadata.document_count = 0
    /\ Get(state, "retrieved_documents", None) \notin {None, Some(<<>>)} =>
        /\ RagSucceeded
        /\ Cardinality(Retrieved) = Cardinality(RetrieveCalls)

C30_Witness ==
    /\ InRun /\ Degraded
    /\ Len(extcalls) = 3
    /\ extcalls[1].docs # <<>> /\ extcalls[2].docs # <<>>
    /\ extcalls[3].op = "complete" /\ extcalls[3].raised # None
    /\ state.retrieved_documents = Some(<<>>)
    /\ state.metadata.document_count = 0

----------------------------------------------------------------------------
\* the query is not empty and holds nothing but whitespace
BlankQuery ==
    /\ Get(state, "user_query", EmptyText) # EmptyText
    /\ Strip(state.user_query) = EmptyText

\* C29: a non-empty query of whitespace only passes the classifier node's
\* empty-query guard, is scored after trimming with no match, and ends with
\* category general, confidence 0.3 and no error marker in metadata.
C29_BlankQueryScored ==
    Classified /\ BlankQuery =>
        /\ preprocess_query(state.user_query) = EmptyText
        /\ state.classified_category = Some("general")
        /\ state.confidence_score = Some(NoMatchConfidence)
        /\ state.confidence_score # Some(0)
        /\ "error" \notin DOMAIN state.metadata
        /\ state.metadata.classifier_type = "rule-based"
        /\ \A c \in DOMAIN state.metadata.classification_scores :
                state.metadata.classification_scores[c] = 0

C29_Witness ==
    /\ Classified /\ InRun
    /\ state.user_query = <<" ", " ">>
    /\ state.confidence_score = Some(30)
    /\ DOMAIN state.metadata = {"classification_scores", "classifier_type"}

----------------------------------------------------------------------------
\* the calls of one identifier that were answered allowed
AllowedCalls(identifier) ==
    {i \in 1..Len(log) : log[i].identifier = identifier /\ log[i].allowed}

\* of those, the ones made before call i and less than span seconds before it
AllowedBefore(i, span) ==
    {j \in AllowedCalls(log[i].identifier) : j < i /\ log[j].now > log[i].now - span}

\* C26: for every identifier the requests answered allowed within any 60
\* seconds never exceed requests_per_minute and within any 3600 seconds
\* never exceed requests_per_hour; a request is denied exactly when one of
\* the limits is already reached by the requests of the same identifier
\* allowed before it, so the requests of another identifier never count.
C26_SlidingWindowLimits ==
    /\ \A identifier \in Identifiers : \A i \in AllowedCalls(identifier) :
        /\ Cardinality({j \in AllowedCalls(identifier) :
                log[j].now >= log[i].now /\ log[j].now < log[i].now + 60})
                    <= requests_per_minute
        /\ Cardinality({j \in AllowedCalls(identifier) :
                log[j].now >= log[i].now /\ log[j].now < log[i].now + 3600})
                    <= requests_per_hour
    /\ \A i \in 1..Len(log) :
        ~log[i].allowed <=>
            \/ Cardinality(AllowedBefore(i, 60)) >= requests_per_minute
            \/ Cardinality(AllowedBefore(i, 3600)) >= requests_per_hour

C26_Witness ==
    /\ Len(log) = 4
    /\ log[1].identifier = log[2].identifier /\ log[2].identifier = log[3].identifier
    /\ log[4].identifier # log[3].identifier
    /\ log[1].allowed /\ log[2].allowed
    /\ ~log[3].allowed /\ log[3].reason = "per minute"
    /\ log[4].allowed /\ log[4].now = log[3].now

----------------------------------------------------------------------------
\* a request for verify_authentication has been answered
Authenticated == call.fn = "verify_authentication" /\ pc \in {END, "raised"}

ApiKeyEnabled == Val(env).API_KEY_AUTH_ENABLED

PresentedKeyValid ==
    call.api_key # None /\ Val(call.api_key) \in Val(env).VALID_API_KEYS

PresentedTokenValid ==
    /\ call.credentials # None
    /\ Val(call.credentials).signed
    /\ ~Val(call.credentials).expired
    /\ Val(call.credentials).sub # None

\* C27: verify_authentication grants access by either method: it returns
\* true, and does not fail with 401, whenever API-key authentication is
\* enabled and the presented key is valid, or a valid JWT bearer token is
\* presented, or API-key authentication is disabled, with or without a token.
C27_EitherMethodGrants ==
    /\ Authenticated
    /\ \/ ApiKeyEnabled /\ PresentedKeyValid
       \/ PresentedTokenValid
       \/ ~ApiKeyEnabled
    => /\ pc = END
       /\ call.granted = TRUE

=============================================================================
